---- MODULE Spec2Model ----
(***************************************************************************)
(* Soil-Monitoring, cloud node A: the streaming anomaly detector           *)
(* (anomaly_detector.py) and the ingestion handler that feeds it           *)
(* (cloud_ingest.py).                                                      *)
(*                                                                         *)
(* Numbers.  Readings are modelled as integers.  Every comparison the      *)
(* detector makes on floats is restated on integers by cross-multiplying   *)
(* (the thresholds 2.5, 1.5 and 0.3 are the fractions 5/2, 3/2 and 3/10).  *)
(* For integer readings of the size used here the float result of the      *)
(* code and the exact result agree: two distinct fractions with            *)
(* denominators below 2^20 differ by far more than one unit in the last    *)
(* place of a double.                                                      *)
(*                                                                         *)
(* Python values.  A JSON value is a number, something that is not a       *)
(* number (a string, an object such as the "anomaly_result" of             *)
(* mock_edge_output.py, null), or - for an optional argument - None.       *)
(***************************************************************************)
EXTENDS Integers, Sequences, FiniteSets, TLC

Num(i) == [k |-> "num", n |-> i, s |-> ""]
Str(x) == [k |-> "str", n |-> 0, s |-> x]
None == [k |-> "none", n |-> 0, s |-> ""]
IsNum(v) == v.k = "num"
\* A sensor value that is not a number.
NonNumeric == Str("n/a")

Abs(i) == IF i < 0 THEN -i ELSE i
Min(a, b) == IF a <= b THEN a ELSE b
Range(s) == {s[i] : i \in 1..Len(s)}
AllNum(s) == \A i \in 1..Len(s) : IsNum(s[i])

\* The last m elements of s (all of s when it is shorter).
LastN(s, m) == IF Len(s) <= m THEN s ELSE SubSeq(s, Len(s) - m + 1, Len(s))

(***************************************************************************)
(* AnomalyDetector configuration (anomaly_detector.py:24-43; CloudIngestion *)
(* constructs the detector with the same four values, cloud_ingest.py:20).  *)
(***************************************************************************)
zscore_threshold_num == 5
zscore_threshold_den == 2
iqr_multiplier_num == 3
iqr_multiplier_den == 2
change_rate_threshold_num == 3
change_rate_threshold_den == 10
window_size == 20

(***************************************************************************)
(* statistics.mean / statistics.stdev on a list of numbers, kept exact:    *)
(* with n = len, S = sum and Q = sum of squares,                           *)
(*   mean = S / n      and      stdev^2 = (n*Q - S^2) / (n*(n-1)).         *)
(***************************************************************************)
RECURSIVE SumSeq(_)
SumSeq(s) == IF s = << >> THEN 0 ELSE s[1].n + SumSeq(Tail(s))

RECURSIVE SumSqSeq(_)
SumSqSeq(s) == IF s = << >> THEN 0 ELSE s[1].n * s[1].n + SumSqSeq(Tail(s))

\* n*(n-1) times the sample variance.
ScaledVariance(s) == Len(s) * SumSqSeq(s) - SumSeq(s) * SumSeq(s)

\* sorted(): insertion of x into an ascending sequence of numbers.
RECURSIVE InsertSorted(_, _)
InsertSorted(x, s) ==
    IF s = << >> THEN << x >>
    ELSE IF x.n <= s[1].n THEN << x >> \o s
    ELSE << s[1] >> \o InsertSorted(x, Tail(s))

RECURSIVE sorted(_)
sorted(s) == IF s = << >> THEN << >> ELSE InsertSorted(s[1], sorted(Tail(s)))

(***************************************************************************)
(* _zscore_anomaly.  The TypeError that statistics.mean or the subtraction  *)
(* raises on a value that is not a number is caught inside the method      *)
(* (line 82) and gives "no anomaly".                                       *)
(*   zscore >= t   <=>   |n*v - S|^2 * (n-1) * den^2 >= num^2 * n * (nQ-S^2) *)
(***************************************************************************)
\* Variant: ">" in place of ">=" at line 76.
zscore_flag_strict(value, baseline_values) ==
    LET n == Len(baseline_values)
        d == n * value.n - SumSeq(baseline_values)
    IN  zscore_threshold_den * zscore_threshold_den * (n - 1) * d * d
          > zscore_threshold_num * zscore_threshold_num * n * ScaledVariance(baseline_values)

zscore_flag_inclusive(value, baseline_values) ==
    LET n == Len(baseline_values)
        d == n * value.n - SumSeq(baseline_values)
    IN  zscore_threshold_den * zscore_threshold_den * (n - 1) * d * d
          >= zscore_threshold_num * zscore_threshold_num * n * ScaledVariance(baseline_values)

zscore_anomaly(value, baseline_values) ==
    IF Len(baseline_values) < 2 THEN FALSE
    ELSE IF ~AllNum(baseline_values) THEN FALSE
    ELSE IF ScaledVariance(baseline_values) = 0 THEN FALSE
    ELSE IF ~IsNum(value) THEN FALSE
    ELSE zscore_flag_inclusive(value, baseline_values)

(***************************************************************************)
(* _iqr_anomaly.  q1 and q3 are elements of the sorted window at the       *)
(* 0-based indexes n // 4 and (3 * n) // 4.                                *)
(*   value < q1 - m*iqr   <=>   den*value < den*q1 - num*iqr               *)
(***************************************************************************)
\* Variant: the quartile positions n // 4 and (3 * n) // 4 taken one element early.
iqr_bounds_one_early(baseline_values) ==
    LET sorted_vals == sorted(baseline_values)
        n == Len(sorted_vals)
        q1 == sorted_vals[n \div 4].n
        q3 == sorted_vals[(3 * n) \div 4].n
        iqr == q3 - q1
    IN  [lower_scaled |-> iqr_multiplier_den * q1 - iqr_multiplier_num * iqr,
         upper_scaled |-> iqr_multiplier_den * q3 + iqr_multiplier_num * iqr]

iqr_bounds(baseline_values) ==
    LET sorted_vals == sorted(baseline_values)
        n == Len(sorted_vals)
        q1 == sorted_vals[(n \div 4) + 1].n
        q3 == sorted_vals[((3 * n) \div 4) + 1].n
        iqr == q3 - q1
    IN  [lower_scaled |-> iqr_multiplier_den * q1 - iqr_multiplier_num * iqr,
         upper_scaled |-> iqr_multiplier_den * q3 + iqr_multiplier_num * iqr]

\* Variant: the method waits for a full window (window_size samples, not 4).
iqr_anomaly_full_window(value, baseline_values) ==
    IF Len(baseline_values) < window_size THEN FALSE
    ELSE IF ~AllNum(baseline_values) THEN FALSE
    ELSE IF ~IsNum(value) THEN FALSE
    ELSE LET b == iqr_bounds(baseline_values)
         IN  \/ iqr_multiplier_den * value.n < b.lower_scaled
             \/ iqr_multiplier_den * value.n > b.upper_scaled

\* Variant: three samples are enough.
iqr_anomaly_min_three(value, baseline_values) ==
    IF Len(baseline_values) < 3 THEN FALSE
    ELSE IF ~AllNum(baseline_values) THEN FALSE
    ELSE IF ~IsNum(value) THEN FALSE
    ELSE LET b == iqr_bounds(baseline_values)
         IN  \/ iqr_multiplier_den * value.n < b.lower_scaled
             \/ iqr_multiplier_den * value.n > b.upper_scaled

\* Variant: a value on a bound counts as outside ("<=" and ">=").
iqr_anomaly_inclusive(value, baseline_values) ==
    IF Len(baseline_values) < 4 THEN FALSE
    ELSE IF ~AllNum(baseline_values) THEN FALSE
    ELSE IF ~IsNum(value) THEN FALSE
    ELSE LET b == iqr_bounds(baseline_values)
         IN  \/ iqr_multiplier_den * value.n <= b.lower_scaled
             \/ iqr_multiplier_den * value.n >= b.upper_scaled

iqr_anomaly(value, baseline_values) ==
    IF Len(baseline_values) < 4 THEN FALSE
    ELSE IF ~AllNum(baseline_values) THEN FALSE
    ELSE IF ~IsNum(value) THEN FALSE
    ELSE LET b == iqr_bounds(baseline_values)
         IN  \/ iqr_multiplier_den * value.n < b.lower_scaled
             \/ iqr_multiplier_den * value.n > b.upper_scaled

(***************************************************************************)
(* _change_rate_anomaly: abs((current - previous) / previous) >= 0.3.      *)
(* "previous == 0" is False for a value that is not a number, and the      *)
(* subtraction then raises a TypeError that the method catches (line 155). *)
(***************************************************************************)
\* Variant: ">" in place of ">=".
change_rate_anomaly_strict(current_value, previous_value) ==
    IF previous_value = None \/ previous_value = Num(0) THEN FALSE
    ELSE IF ~IsNum(current_value) \/ ~IsNum(previous_value) THEN FALSE
    ELSE change_rate_threshold_den * Abs(current_value.n - previous_value.n)
           > change_rate_threshold_num * Abs(previous_value.n)

change_rate_anomaly(current_value, previous_value) ==
    IF previous_value = None \/ previous_value = Num(0) THEN FALSE
    ELSE IF ~IsNum(current_value) \/ ~IsNum(previous_value) THEN FALSE
    ELSE change_rate_threshold_den * Abs(current_value.n - previous_value.n)
           >= change_rate_threshold_num * Abs(previous_value.n)

(***************************************************************************)
(* _threshold_anomaly has no try/except: comparing a value that is not a   *)
(* number with the numeric bound raises TypeError out of the method.       *)
(***************************************************************************)
\* Variant: the two bounds compared the wrong way round.
threshold_anomaly_swapped(value, critical_low, critical_high) ==
    IF ~IsNum(value) THEN [raised |-> TRUE, is_anomaly |-> FALSE, status |-> "none"]
    ELSE IF value.n < critical_high.n
         THEN [raised |-> FALSE, is_anomaly |-> TRUE, status |-> "above_critical"]
    ELSE IF value.n > critical_low.n
         THEN [raised |-> FALSE, is_anomaly |-> TRUE, status |-> "below_critical"]
    ELSE [raised |-> FALSE, is_anomaly |-> FALSE, status |-> "none"]

threshold_anomaly(value, critical_low, critical_high) ==
    IF ~IsNum(value) THEN [raised |-> TRUE, is_anomaly |-> FALSE, status |-> "none"]
    ELSE IF value.n < critical_low.n
         THEN [raised |-> FALSE, is_anomaly |-> TRUE, status |-> "below_critical"]
    ELSE IF value.n > critical_high.n
         THEN [raised |-> FALSE, is_anomaly |-> TRUE, status |-> "above_critical"]
    ELSE [raised |-> FALSE, is_anomaly |-> FALSE, status |-> "none"]

Finding(method, status) == [method |-> method, status |-> status]

\* Variant: "== 3" in place of ">= 3".
severity_of_exactly_three(num_anomalies) ==
    IF num_anomalies = 3 THEN "critical"
    ELSE IF num_anomalies = 2 THEN "high"
    ELSE IF num_anomalies = 1 THEN "medium"
    ELSE "normal"

\* Variant: two findings are already critical.
severity_of_two_is_critical(num_anomalies) ==
    IF num_anomalies >= 2 THEN "critical"
    ELSE IF num_anomalies = 1 THEN "medium"
    ELSE "normal"

severity_of(num_anomalies) ==
    IF num_anomalies >= 3 THEN "critical"
    ELSE IF num_anomalies = 2 THEN "high"
    ELSE IF num_anomalies = 1 THEN "medium"
    ELSE "normal"

(***************************************************************************)
(* detect_anomalies.  The report carries the parameter, the value, the     *)
(* findings in the order the methods run and the severity; its timestamp   *)
(* (datetime.utcnow) is left out.  raised = TRUE stands for the TypeError  *)
(* of _threshold_anomaly leaving detect_anomalies: no report is returned.  *)
(***************************************************************************)
\* Variant: the methods form an if / elif chain, so the first finding ends the evaluation.
detect_anomalies_first_hit(current_value, parameter, baseline_values, previous_value, critical_low, critical_high) ==
    LET m1 == IF zscore_anomaly(current_value, baseline_values)
              THEN << Finding("zscore", "none") >> ELSE << >>
        m2 == IF iqr_anomaly(current_value, baseline_values)
              THEN << Finding("iqr", "none") >> ELSE << >>
        m3 == IF change_rate_anomaly(current_value, previous_value)
              THEN << Finding("change_rate", "none") >> ELSE << >>
        checked == critical_low # None /\ critical_high # None
        t == IF checked THEN threshold_anomaly(current_value, critical_low, critical_high)
             ELSE [raised |-> FALSE, is_anomaly |-> FALSE, status |-> "none"]
        m4 == IF t.is_anomaly THEN << Finding("threshold", t.status) >> ELSE << >>
        found == IF m1 # << >> THEN m1 ELSE IF m2 # << >> THEN m2 ELSE IF m3 # << >> THEN m3 ELSE m4
    IN  IF t.raised
        THEN [raised |-> TRUE, parameter |-> parameter, current_value |-> current_value,
              anomalies_detected |-> << >>, severity |-> "normal"]
        ELSE [raised |-> FALSE, parameter |-> parameter, current_value |-> current_value,
              anomalies_detected |-> found, severity |-> severity_of(Len(found))]

\* Variant: the threshold method runs when either bound is configured ("or" in
\* place of "and" at line 252); comparing with the missing bound raises.
detect_anomalies_either_bound(current_value, parameter, baseline_values, previous_value, critical_low, critical_high) ==
    LET m1 == IF zscore_anomaly(current_value, baseline_values)
              THEN << Finding("zscore", "none") >> ELSE << >>
        m2 == IF iqr_anomaly(current_value, baseline_values)
              THEN << Finding("iqr", "none") >> ELSE << >>
        m3 == IF change_rate_anomaly(current_value, previous_value)
              THEN << Finding("change_rate", "none") >> ELSE << >>
        checked == critical_low # None \/ critical_high # None
        t == IF ~checked THEN [raised |-> FALSE, is_anomaly |-> FALSE, status |-> "none"]
             ELSE IF critical_low = None \/ critical_high = None
             THEN [raised |-> TRUE, is_anomaly |-> FALSE, status |-> "none"]
             ELSE threshold_anomaly(current_value, critical_low, critical_high)
        m4 == IF t.is_anomaly THEN << Finding("threshold", t.status) >> ELSE << >>
        found == m1 \o m2 \o m3 \o m4
    IN  IF t.raised
        THEN [raised |-> TRUE, parameter |-> parameter, current_value |-> current_value,
              anomalies_detected |-> << >>, severity |-> "normal"]
        ELSE [raised |-> FALSE, parameter |-> parameter, current_value |-> current_value,
              anomalies_detected |-> found, severity |-> severity_of(Len(found))]

detect_anomalies(current_value, parameter, baseline_values, previous_value, critical_low, critical_high) ==
    LET m1 == IF zscore_anomaly(current_value, baseline_values)
              THEN << Finding("zscore", "none") >> ELSE << >>
        m2 == IF iqr_anomaly(current_value, baseline_values)
              THEN << Finding("iqr", "none") >> ELSE << >>
        m3 == IF change_rate_anomaly(current_value, previous_value)
              THEN << Finding("change_rate", "none") >> ELSE << >>
        checked == critical_low # None /\ critical_high # None
        t == IF checked THEN threshold_anomaly(current_value, critical_low, critical_high)
             ELSE [raised |-> FALSE, is_anomaly |-> FALSE, status |-> "none"]
        m4 == IF t.is_anomaly THEN << Finding("threshold", t.status) >> ELSE << >>
        found == m1 \o m2 \o m3 \o m4
    IN  IF t.raised
        THEN [raised |-> TRUE, parameter |-> parameter, current_value |-> current_value,
              anomalies_detected |-> << >>, severity |-> "normal"]
        ELSE [raised |-> FALSE, parameter |-> parameter, current_value |-> current_value,
              anomalies_detected |-> found, severity |-> severity_of(Len(found))]

is_normal(anomaly_result) == Len(anomaly_result.anomalies_detected) = 0

\* Variant: severity_map.get(sensitivity, []) - no fallback to the medium mapping.
severity_map_no_fallback(sensitivity) ==
    IF sensitivity = "low" THEN {"critical"}
    ELSE IF sensitivity = "medium" THEN {"critical", "high"}
    ELSE IF sensitivity = "high" THEN {"critical", "high", "medium"}
    ELSE {}

severity_map(sensitivity) ==
    IF sensitivity = "low" THEN {"critical"}
    ELSE IF sensitivity = "medium" THEN {"critical", "high"}
    ELSE IF sensitivity = "high" THEN {"critical", "high", "medium"}
    ELSE {"critical", "high"}

should_forward_to_cloud(anomaly_result, sensitivity) ==
    anomaly_result.severity \in severity_map(sensitivity)

(***************************************************************************)
(* CloudIngestion state.  baselines and previous_values are defaultdicts:  *)
(* reading a missing key creates it (with an empty list / an empty dict),  *)
(* so a map here is a function whose DOMAIN is the set of keys created so  *)
(* far.  Device keys are JSON values: a string, or None when the payload   *)
(* has no "device_id".                                                     *)
(***************************************************************************)
VARIABLES
    baselines,        \* self.baselines: device -> parameter -> list of values
    previous_values,  \* self.previous_values: device -> parameter -> value
    pc,               \* position of the on_message callback
    msg,              \* the MQTT message being handled (alert = its decoded items)
    device_id,        \* alert.get("device_id")
    sensor_data,      \* the non-metadata items, in payload order
    idx,              \* position of the for loop over sensor_data (1-based)
    anomaly_analysis, \* alert_with_anomalies["anomaly_analysis"], in insertion order
    anomalies_found,  \* the list of the same name
    should_forward,   \* the local of the same name (FALSE until computed)
    posts,            \* requests.post calls made for the current message
    delivery,         \* result of that call: "none", "ok" or "failed"
    outcome,          \* how the last on_message call ended
    evals,            \* history: the detect_anomalies calls of the current message
    recorded,         \* history: every value passed to _update_baseline, per key
    handled,          \* history: number of messages received so far
    t_in,             \* detector harness: the arguments
    t_out,            \* detector harness: the results
    inbox,            \* PUBLISH packets read by the client, not yet given to on_message
    arrival_log,      \* history: every packet in the order it arrived
    heap,             \* the list objects of the interpreter: object id -> contents
    stored,           \* self.baselines seen as objects: key -> id of its list
    snapshots,        \* the lists _get_baseline has returned, with what each should hold
    edge_pc,          \* EdgeNode: position of the _on_mqtt_message callback
    edge_log,         \* EdgeNode history: the messages received, in order
    edge_outcome,     \* EdgeNode: how the last _on_mqtt_message call ended
    redis,            \* EdgeNode: the readings store_reading has stored
    store_failed,     \* EdgeNode history: the readings whose store failed
    published         \* EdgeNode: the payloads published to the cloud topic

cloud_vars == << baselines, previous_values, pc, msg, device_id, sensor_data, idx,
                anomaly_analysis, anomalies_found, should_forward, posts, delivery,
                outcome, evals, recorded, handled, inbox, arrival_log >>
snapshot_vars == << heap, stored, snapshots >>
edge_vars == << edge_pc, edge_log, edge_outcome, redis, store_failed, published >>

vars == << baselines, previous_values, pc, msg, device_id, sensor_data, idx,
           anomaly_analysis, anomalies_found, should_forward, posts, delivery, outcome,
           evals, recorded, handled, t_in, t_out, inbox, arrival_log, snapshot_vars, edge_vars >>

ingest_vars == << baselines, previous_values, pc, msg, device_id, sensor_data, idx,
                  anomaly_analysis, anomalies_found, should_forward, posts, delivery, outcome,
                  evals, recorded, handled, inbox, arrival_log, snapshot_vars, edge_vars >>

EmptyMap == << >>

\* dict.get(key, default): no key is created.
dict_get(m, key, default) == IF key \in DOMAIN m THEN m[key] ELSE default

\* defaultdict.__getitem__: the map after the read (the key now exists).
dd_touch(m, key, default) ==
    [x \in DOMAIN m \cup {key} |-> IF x \in DOMAIN m THEN m[x] ELSE default]

dict_set(m, key, value) ==
    [x \in DOMAIN m \cup {key} |-> IF x = key THEN value ELSE m[x]]

\* self.critical_thresholds, for the parameters with whole-number bounds
\* ("pH", 4.0 .. 8.5, is not a parameter of this model's messages).
critical_thresholds ==
    [p \in {"N", "P", "K", "moisture", "temperature"} |->
        CASE p = "N" -> [low |-> Num(0), high |-> Num(100)]
          [] p = "P" -> [low |-> Num(0), high |-> Num(80)]
          [] p = "K" -> [low |-> Num(0), high |-> Num(400)]
          [] p = "moisture" -> [low |-> Num(10), high |-> Num(80)]
          [] p = "temperature" -> [low |-> Num(-10), high |-> Num(50)]]

\* _get_critical_thresholds followed by thresholds.get("low") / .get("high").
get_critical_thresholds(parameter) ==
    dict_get(critical_thresholds, parameter, [low |-> None, high |-> None])

\* The list _get_baseline returns: a copy of the stored list.
get_baseline(b, device, parameter) ==
    dict_get(dict_get(b, device, EmptyMap), parameter, << >>)

\* The side effect of _get_baseline: self.baselines[device_id][parameter] exists.
touch_baseline(b, device, parameter) ==
    LET inner == dict_get(b, device, EmptyMap)
    IN  dict_set(b, device, dd_touch(inner, parameter, << >>))

get_previous_value(pv, device, parameter) ==
    dict_get(dict_get(pv, device, EmptyMap), parameter, None)

\* The side effect of _get_previous_value: self.previous_values[device_id] exists.
touch_previous(pv, device) == dd_touch(pv, device, EmptyMap)

\* Variant: setdefault - the value is stored only when the key has none yet.
set_previous_value_keep_first(pv, device, parameter, value) ==
    LET inner == dict_get(pv, device, EmptyMap)
    IN  IF parameter \in DOMAIN inner THEN pv
        ELSE dict_set(pv, device, dict_set(inner, parameter, value))

set_previous_value(pv, device, parameter, value) ==
    dict_set(pv, device, dict_set(dict_get(pv, device, EmptyMap), parameter, value))

\* Variant: baseline.pop() - the newest element is dropped.
evict_newest(baseline) ==
    IF Len(baseline) > 20 THEN SubSeq(baseline, 1, Len(baseline) - 1) ELSE baseline

\* baseline.pop(0) once the list is longer than 20.
evict(baseline) == IF Len(baseline) > 20 THEN Tail(baseline) ELSE baseline

\* Variant: one list per parameter, shared by the devices.
update_baseline_every_device(b, device, parameter, value) ==
    LET baseline == evict(Append(get_baseline(b, device, parameter), value))
    IN  [d \in DOMAIN b \cup {device} |->
            dict_set(dict_get(b, d, EmptyMap), parameter, baseline)]

update_baseline(b, device, parameter, value) ==
    LET baseline == Append(get_baseline(b, device, parameter), value)
    IN  dict_set(b, device,
                 dict_set(dict_get(b, device, EmptyMap), parameter, evict(baseline)))

(***************************************************************************)
(* Messages.  A payload is undecodable (json.loads raises), decodes to      *)
(* something that is not an object (alert.get raises AttributeError), or   *)
(* decodes to an object: a sequence of key/value items with distinct keys, *)
(* in payload order.  The edge node puts edge_node, device_id and          *)
(* timestamp first (edge_node.py:144-149).                                 *)
(***************************************************************************)
MaxMessages == 2

DeviceIds == {"device_germany", "device_india"}
Parameters == {"temperature", "humidity"}
FieldValues == {Num(10), Num(60), NonNumeric}

Item(key, value) == [key |-> key, value |-> value]

Meta(d) == << Item("edge_node", Str("edge-europe")), Item("device_id", Str(d)),
              Item("timestamp", Num(0)) >>
MetaNoDevice == << Item("edge_node", Str("edge-europe")), Item("timestamp", Num(0)) >>

SensorItems == {Item(p, v) : p \in Parameters, v \in FieldValues}

FieldSeqs ==
    {f \in UNION {[1..n -> SensorItems] : n \in 0..Cardinality(Parameters)} :
        \A i, j \in 1..Len(f) : i # j => f[i].key # f[j].key}

Object(items) == [kind |-> "object", items |-> items]
Undecodable == [kind |-> "undecodable", items |-> << >>]
NotObject == [kind |-> "not_object", items |-> << >>]
NoMessage == [kind |-> "none", items |-> << >>]

Messages ==
    {Undecodable, NotObject}
    \cup {Object(Meta(d) \o f) : d \in DeviceIds, f \in FieldSeqs}
    \cup {Object(MetaNoDevice \o f) : f \in FieldSeqs}

\* Variant: the timestamp is not filtered out.
metadata_keys_without_timestamp == {"edge_node", "device_id"}

metadata_keys == {"edge_node", "device_id", "timestamp"}

\* alert.get(key)
alert_get(items, key) ==
    IF \E i \in 1..Len(items) : items[i].key = key
    THEN items[CHOOSE i \in 1..Len(items) : items[i].key = key].value
    ELSE None

IsSensorItem(it) == it.key \notin metadata_keys

\* sensor_data = {k: v for k, v in alert.items() if k not in metadata_keys}
select_sensor_data(items) == SelectSeq(items, IsSensorItem)

\* Variant of loop_body: the value is recorded before the baseline is read.
loop_body_record_first(b, pv, device, parameter, current_value) ==
    LET b1 == update_baseline(touch_baseline(b, device, parameter),
                              device, parameter, current_value)
        pv1 == set_previous_value(touch_previous(pv, device),
                                  device, parameter, current_value)
        baseline == get_baseline(b1, device, parameter)
        previous_value == get_previous_value(pv1, device, parameter)
        thresholds == get_critical_thresholds(parameter)
        anomaly_result == detect_anomalies(current_value, parameter, baseline,
                                           previous_value, thresholds.low, thresholds.high)
    IN  [baseline_values |-> baseline, previous_value |-> previous_value,
         result |-> anomaly_result, baselines |-> b1, previous_values |-> pv1]

(***************************************************************************)
(* One pass of the for loop of on_message (lines 96-125): read the         *)
(* baseline and the previous value, evaluate, then record.  When           *)
(* detect_anomalies raises, the lines after the call are not run; the two  *)
(* reads have already created their keys.                                  *)
(***************************************************************************)
loop_body(b, pv, device, parameter, current_value) ==
    LET baseline == get_baseline(b, device, parameter)
        previous_value == get_previous_value(pv, device, parameter)
        thresholds == get_critical_thresholds(parameter)
        anomaly_result == detect_anomalies(current_value, parameter, baseline,
                                           previous_value, thresholds.low, thresholds.high)
        b1 == touch_baseline(b, device, parameter)
        pv1 == touch_previous(pv, device)
    IN  [baseline_values |-> baseline, previous_value |-> previous_value,
         result |-> anomaly_result,
         baselines |-> IF anomaly_result.raised THEN b1
                       ELSE update_baseline(b1, device, parameter, current_value),
         previous_values |-> IF anomaly_result.raised THEN pv1
                             ELSE set_previous_value(pv1, device, parameter, current_value)]

\* The forwarding decision of lines 136-144.
any_should_forward(analysis) ==
    \E i \in 1..Len(analysis) : should_forward_to_cloud(analysis[i], "medium")

\* Variant: "if should_forward:" - the policy alone decides.
forward_decision_policy_only(analysis, found) == any_should_forward(analysis)

forward_decision(analysis, found) == any_should_forward(analysis) \/ found # << >>

NoTest == [stage |-> "off"]

Init ==
    /\ baselines = EmptyMap
    /\ previous_values = EmptyMap
    /\ pc = "idle"
    /\ msg = NoMessage
    /\ device_id = None
    /\ sensor_data = << >>
    /\ idx = 1
    /\ anomaly_analysis = << >>
    /\ anomalies_found = << >>
    /\ should_forward = FALSE
    /\ posts = 0
    /\ delivery = "none"
    /\ outcome = "none"
    /\ evals = << >>
    /\ recorded = EmptyMap
    /\ handled = 0
    /\ t_in = NoTest
    /\ t_out = NoTest
    /\ inbox = << >>
    /\ arrival_log = << >>
    /\ heap = << >>
    /\ stored = EmptyMap
    /\ snapshots = << >>
    /\ edge_pc = "idle"
    /\ edge_log = << >>
    /\ edge_outcome = "none"
    /\ redis = {}
    /\ store_failed = {}
    /\ published = << >>

\* client.loop_forever() (line 168) reads the packets of the connection one
\* after another on the calling thread and calls on_message for each before it
\* reads the next: a call starts only when no call is running.
\* Variant: a callback started for every packet at once (a threaded dispatch).
callback_may_start_threaded == TRUE

callback_may_start == pc = "idle"

\* on_message, lines 75-94: decode, take the device id, select the sensor data.
\* Both decoding failures end in an except clause of lines 156-159.
Receive(m) ==
    /\ callback_may_start
    /\ msg' = m
    /\ handled' = handled + 1
    /\ device_id' = IF m.kind = "object" THEN alert_get(m.items, "device_id") ELSE None
    /\ sensor_data' = IF m.kind = "object" THEN select_sensor_data(m.items) ELSE << >>
    /\ idx' = 1
    /\ anomaly_analysis' = << >>
    /\ anomalies_found' = << >>
    /\ should_forward' = FALSE
    /\ posts' = 0
    /\ delivery' = "none"
    /\ evals' = << >>
    /\ IF m.kind # "object"
       THEN pc' = "idle" /\ outcome' = "rejected"
       ELSE /\ outcome' = "running"
            /\ pc' = IF select_sensor_data(m.items) = << >> THEN "decide" ELSE "loop"
    /\ UNCHANGED << baselines, previous_values, recorded, t_in, t_out, snapshot_vars,
                    edge_vars >>

\* One pass of the loop that completes (lines 96-125).
LoopBody ==
    /\ pc = "loop"
    /\ LET parameter == sensor_data[idx].key
           current_value == sensor_data[idx].value
           r == loop_body(baselines, previous_values, device_id, parameter, current_value)
           key == << device_id, parameter >>
       IN  /\ ~r.result.raised
           /\ evals' = Append(evals, [parameter |-> parameter, current_value |-> current_value,
                                      baseline_values |-> r.baseline_values,
                                      previous_value |-> r.previous_value,
                                      result |-> r.result])
           /\ anomaly_analysis' = Append(anomaly_analysis, r.result)
           /\ anomalies_found' =
                  IF is_normal(r.result) THEN anomalies_found
                  ELSE Append(anomalies_found,
                              [parameter |-> parameter, severity |-> r.result.severity,
                               details |-> r.result.anomalies_detected])
           /\ baselines' = r.baselines
           /\ previous_values' = r.previous_values
           /\ recorded' = dict_set(recorded, key,
                                   Append(dict_get(recorded, key, << >>), current_value))
    /\ idx' = idx + 1
    /\ pc' = IF idx = Len(sensor_data) THEN "decide" ELSE "loop"
    /\ UNCHANGED << msg, device_id, sensor_data, should_forward, posts, delivery,
                    outcome, handled, t_in, t_out,
                    inbox, arrival_log, snapshot_vars, edge_vars >>

\* A pass in which detect_anomalies raises: control goes to line 158.
LoopBodyRaises ==
    /\ pc = "loop"
    /\ LET parameter == sensor_data[idx].key
           current_value == sensor_data[idx].value
           r == loop_body(baselines, previous_values, device_id, parameter, current_value)
       IN  /\ r.result.raised
           /\ evals' = Append(evals, [parameter |-> parameter, current_value |-> current_value,
                                      baseline_values |-> r.baseline_values,
                                      previous_value |-> r.previous_value,
                                      result |-> r.result])
           /\ baselines' = r.baselines
           /\ previous_values' = r.previous_values
    /\ pc' = "idle"
    /\ outcome' = "aborted"
    /\ UNCHANGED << msg, device_id, sensor_data, idx, anomaly_analysis, anomalies_found,
                    should_forward, posts, delivery, recorded, handled, t_in, t_out,
                    inbox, arrival_log, snapshot_vars, edge_vars >>

\* Lines 136-153: the decision; the else branch ends the call.
Decide ==
    /\ pc = "decide"
    /\ should_forward' = any_should_forward(anomaly_analysis)
    /\ IF forward_decision(anomaly_analysis, anomalies_found)
       THEN pc' = "post" /\ outcome' = outcome
       ELSE pc' = "idle" /\ outcome' = "processed"
    /\ UNCHANGED << baselines, previous_values, msg, device_id, sensor_data, idx,
                    anomaly_analysis, anomalies_found, posts, delivery, evals, recorded,
                    handled, t_in, t_out,
                    inbox, arrival_log, snapshot_vars, edge_vars >>

\* requests.post returns (line 147).
PostDelivered ==
    /\ pc = "post"
    /\ posts' = posts + 1
    /\ delivery' = "ok"
    /\ pc' = "idle"
    /\ outcome' = "processed"
    /\ UNCHANGED << baselines, previous_values, msg, device_id, sensor_data, idx,
                    anomaly_analysis, anomalies_found, should_forward, evals, recorded,
                    handled, t_in, t_out,
                    inbox, arrival_log, snapshot_vars, edge_vars >>

\* Variant: a failed delivery undoes the recording of the message.
PostFailsRollsBack ==
    /\ pc = "post"
    /\ posts' = posts + 1
    /\ delivery' = "failed"
    /\ pc' = "idle"
    /\ outcome' = "processed"
    /\ baselines' =
          [d \in DOMAIN baselines |->
              IF d # device_id THEN baselines[d]
              ELSE [p \in DOMAIN baselines[d] |->
                      IF \E i \in 1..Len(sensor_data) : sensor_data[i].key = p
                      THEN SubSeq(baselines[d][p], 1, Len(baselines[d][p]) - 1)
                      ELSE baselines[d][p]]]
    /\ UNCHANGED << previous_values, msg, device_id, sensor_data, idx,
                    anomaly_analysis, anomalies_found, should_forward, evals, recorded,
                    handled, t_in, t_out, inbox, arrival_log, snapshot_vars, edge_vars >>

\* Variant: a failed delivery is tried again.
PostFailsRetries ==
    /\ pc = "post"
    /\ posts' = posts + 1
    /\ delivery' = "failed"
    /\ UNCHANGED << baselines, previous_values, pc, outcome, msg, device_id, sensor_data,
                    idx, anomaly_analysis, anomalies_found, should_forward, evals,
                    recorded, handled, t_in, t_out, inbox, arrival_log, snapshot_vars, edge_vars >>

\* requests.post raises RequestException, caught at line 149.
PostFails ==
    /\ pc = "post"
    /\ posts' = posts + 1
    /\ delivery' = "failed"
    /\ pc' = "idle"
    /\ outcome' = "processed"
    /\ UNCHANGED << baselines, previous_values, msg, device_id, sensor_data, idx,
                    anomaly_analysis, anomalies_found, should_forward, evals, recorded,
                    handled, t_in, t_out,
                    inbox, arrival_log, snapshot_vars, edge_vars >>

\* A packet arrives while the client is waiting for one and is handled at once.
Arrive ==
    \E m \in Messages :
        handled < MaxMessages /\ Receive(m) /\ UNCHANGED << inbox, arrival_log, snapshot_vars, edge_vars >>

Next == Arrive \/ LoopBody \/ LoopBodyRaises \/ Decide \/ PostDelivered \/ PostFails

Spec == Init /\ [][Next]_vars

(***************************************************************************)
(* A long stream.  Each device sends a ramp of humidity readings 0, 1, 2,  *)
(* ... (the k-th reading of a device is k), long enough to overflow the    *)
(* window; a message may also carry a temperature that is not a number.    *)
(***************************************************************************)
StreamExtra == 2
StreamLen == window_size + StreamExtra

StreamCount(d) == Len(dict_get(recorded, << Str(d), "humidity" >>, << >>))

StreamMessages(d) ==
    LET reading == Item("humidity", Num(StreamCount(d)))
    IN  {Object(Meta(d) \o << reading >>),
         Object(Meta(d) \o << reading, Item("temperature", NonNumeric) >>)}

ArriveStream ==
    \E d \in DeviceIds : \E m \in StreamMessages(d) :
        StreamCount(d) < StreamLen /\ Receive(m) /\ UNCHANGED << inbox, arrival_log, snapshot_vars, edge_vars >>

NextStream ==
    ArriveStream \/ LoopBody \/ LoopBodyRaises \/ Decide \/ PostDelivered \/ PostFails

SpecStream == Init /\ [][NextStream]_vars

(***************************************************************************)
(* The first readings of one key.  One device sends temperature readings   *)
(* (a parameter with critical bounds -10 .. 50), one per message: values   *)
(* inside the bounds, a value above them, and one that is not a number.    *)
(***************************************************************************)
MaxReadings == 3

FirstValues == {Num(10), Num(11), Num(60), NonNumeric}

FirstMessages ==
    {Object(Meta("device_germany") \o << Item("temperature", v) >>) : v \in FirstValues}

ArriveFirst ==
    \E m \in FirstMessages :
        handled < MaxReadings /\ Receive(m) /\ UNCHANGED << inbox, arrival_log, snapshot_vars, edge_vars >>

NextFirst ==
    ArriveFirst \/ LoopBody \/ LoopBodyRaises \/ Decide \/ PostDelivered \/ PostFails

SpecFirst == Init /\ [][NextFirst]_vars

(***************************************************************************)
(* The client's network loop.  Packets of the subscription arrive at any   *)
(* time, also while on_message is running; they wait in arrival order and  *)
(* loop_forever hands them to on_message one at a time.                    *)
(***************************************************************************)
MaxArrivals == 3

QueueMessages ==
    {Undecodable}
    \cup {Object(Meta(d) \o << Item("humidity", v) >>) :
             d \in DeviceIds, v \in {Num(10), Num(60)}}
    \cup {Object(Meta(d) \o << Item("temperature", NonNumeric) >>) : d \in DeviceIds}

\* A PUBLISH packet for "farm/cloud/#" reaches the client (subscribe, line 165).
NetArrive ==
    \E m \in QueueMessages :
        /\ Len(arrival_log) < MaxArrivals
        /\ inbox' = Append(inbox, m)
        /\ arrival_log' = Append(arrival_log, m)
        /\ UNCHANGED << baselines, previous_values, pc, msg, device_id, sensor_data, idx,
                        anomaly_analysis, anomalies_found, should_forward, posts, delivery,
                        outcome, evals, recorded, handled, t_in, t_out, snapshot_vars,
                        edge_vars >>

\* Variant: the newest waiting packet is handled first.
next_packet_newest(q) == q[Len(q)]

\* loop_forever takes the packets in the order they were read.
next_packet(q) == Head(q)

\* loop_forever calls on_message for the next waiting packet (line 168).
Dispatch ==
    /\ inbox # << >>
    /\ Receive(next_packet(inbox))
    /\ inbox' = Tail(inbox)
    /\ UNCHANGED arrival_log

NextQueue ==
    NetArrive \/ Dispatch \/ LoopBody \/ LoopBodyRaises \/ Decide \/ PostDelivered
    \/ PostFails

SpecQueue == Init /\ [][NextQueue]_vars

(***************************************************************************)
(* The baseline store as objects.  A Python list is an object: two names   *)
(* for one list see each other's changes.  heap[id] is the contents of the *)
(* list with that id, stored[key] the id of the list self.baselines holds  *)
(* for the key.  _update_baseline changes the stored list in place         *)
(* (append, pop(0)); _get_baseline returns a list to its caller.           *)
(***************************************************************************)
MaxSnapshotOps == 2

SnapshotKeys == {<< Str(d), "humidity" >> : d \in DeviceIds}
SnapshotValues == {Num(10), Num(60)}

\* self.baselines[device_id][parameter]: the id of the stored list; a missing
\* key gets a new empty list (defaultdict(list)).
stored_list(h, st, key) ==
    IF key \in DOMAIN st THEN [heap |-> h, stored |-> st, ref |-> st[key]]
    ELSE [heap |-> Append(h, << >>), stored |-> dict_set(st, key, Len(h) + 1),
          ref |-> Len(h) + 1]

\* Variant: "return baseline" - the stored list itself is handed out.
get_baseline_object_live(h, st, key) == stored_list(h, st, key)

\* _get_baseline, lines 59-60: list(baseline) if baseline else [] - in both
\* branches a new list.
get_baseline_object(h, st, key) ==
    LET b == stored_list(h, st, key)
        contents == IF b.heap[b.ref] # << >> THEN b.heap[b.ref] ELSE << >>
    IN  [heap |-> Append(b.heap, contents), stored |-> b.stored, ref |-> Len(b.heap) + 1]

\* _update_baseline, lines 52-55, on the stored object.
update_baseline_object(h, st, key, value) ==
    LET b == stored_list(h, st, key)
    IN  [heap |-> [b.heap EXCEPT ![b.ref] = evict(Append(b.heap[b.ref], value))],
         stored |-> b.stored]

InitSnapshot == Init

\* A call of _get_baseline; the caller keeps the list it was given.
SnapRead ==
    \E key \in SnapshotKeys :
        /\ Len(snapshots) < MaxSnapshotOps
        /\ LET r == get_baseline_object(heap, stored, key)
           IN  /\ heap' = r.heap
               /\ stored' = r.stored
               /\ snapshots' = Append(snapshots,
                      [key |-> key, ref |-> r.ref,
                       expected |-> LastN(dict_get(recorded, key, << >>), window_size)])
        /\ UNCHANGED << baselines, previous_values, pc, msg, device_id, sensor_data, idx,
                        anomaly_analysis, anomalies_found, should_forward, posts, delivery,
                        outcome, evals, recorded, handled, t_in, t_out, inbox, arrival_log,
                        edge_vars >>

\* A call of _update_baseline.
SnapRecord ==
    \E key \in SnapshotKeys : \E value \in SnapshotValues :
        /\ Len(dict_get(recorded, key, << >>)) < MaxSnapshotOps
        /\ LET r == update_baseline_object(heap, stored, key, value)
           IN  heap' = r.heap /\ stored' = r.stored
        /\ recorded' = dict_set(recorded, key, Append(dict_get(recorded, key, << >>), value))
        /\ UNCHANGED << baselines, previous_values, pc, msg, device_id, sensor_data, idx,
                        anomaly_analysis, anomalies_found, should_forward, posts, delivery,
                        outcome, evals, handled, t_in, t_out, inbox, arrival_log,
                        snapshots, edge_vars >>

NextSnapshot == SnapRead \/ SnapRecord

SpecSnapshot == InitSnapshot /\ [][NextSnapshot]_vars

(***************************************************************************)
(* The edge node (edge_node.py).  _on_mqtt_message decodes the payload,    *)
(* drops the messages of devices it does not manage, stores the reading in *)
(* Redis and then publishes it to the cloud topic.  edge_config.py and     *)
(* redis_manager.py are not part of the sources: the set of managed        *)
(* devices and the outcomes of store_reading are taken as described below. *)
(* A reading is named by its position in edge_log.                         *)
(***************************************************************************)
MaxEdgeMessages == 3

\* self.config.managed_devices: this node manages one of the two devices.
managed_devices == {Str("device_germany")}

\* redis_manager.store_reading: the reading is stored and the call returns, or
\* the store fails and the call raises (as the Redis client does).
store_reading_outcomes == {"stored", "raised"}

EdgeMessage(kind, device) == [kind |-> kind, device |-> device]

EdgeMessages ==
    {EdgeMessage("undecodable", None), EdgeMessage("not_object", None),
     EdgeMessage("object", None)}
    \cup {EdgeMessage("object", Str(d)) : d \in DeviceIds}

\* Lines 108-115 and the except clauses of 126-129: where the call goes after
\* decoding and filtering.
edge_entry(m) ==
    IF m.kind = "undecodable" THEN "undecodable"
    ELSE IF m.kind # "object" THEN "failed"
    ELSE IF m.device \notin managed_devices THEN "unmanaged"
    ELSE "store"

\* Variant: a failed store is logged and the reading is forwarded all the same.
next_after_store_ignores_failure(o) == "forward"

\* Line 120 is inside the try of line 107: an exception of store_reading goes
\* to line 128 and line 124 is not reached.
next_after_store(o) == IF o = "stored" THEN "forward" ELSE "idle"

EdgeReceive ==
    \E m \in EdgeMessages :
        /\ edge_pc = "idle"
        /\ Len(edge_log) < MaxEdgeMessages
        /\ edge_log' = Append(edge_log, m)
        /\ edge_pc' = IF edge_entry(m) = "store" THEN "store" ELSE "idle"
        /\ edge_outcome' = IF edge_entry(m) = "store" THEN "running" ELSE edge_entry(m)
        /\ UNCHANGED << cloud_vars, t_in, t_out, snapshot_vars, redis, store_failed,
                        published >>

\* self.redis_manager.store_reading(device_id, payload, ttl=86400), line 120.
EdgeStore ==
    \E o \in store_reading_outcomes :
        /\ edge_pc = "store"
        /\ redis' = IF o = "stored" THEN redis \cup {Len(edge_log)} ELSE redis
        /\ store_failed' = IF o = "stored" THEN store_failed
                           ELSE store_failed \cup {Len(edge_log)}
        /\ edge_pc' = next_after_store(o)
        /\ edge_outcome' = IF next_after_store(o) = "idle" THEN "store_failed" ELSE "running"
        /\ UNCHANGED << cloud_vars, t_in, t_out, snapshot_vars, edge_log, published >>

\* _forward_to_cloud, lines 143-157: the payload is published.
EdgeForwardPublished ==
    /\ edge_pc = "forward"
    /\ published' = Append(published,
          [edge_node |-> Str("edge-europe"), device_id |-> edge_log[Len(edge_log)].device,
           reading |-> Len(edge_log)])
    /\ edge_pc' = "idle"
    /\ edge_outcome' = "forwarded"
    /\ UNCHANGED << cloud_vars, t_in, t_out, snapshot_vars, edge_log, redis,
                    store_failed >>

\* _forward_to_cloud, lines 159-160: json.dumps or publish raises, caught.
EdgeForwardRaises ==
    /\ edge_pc = "forward"
    /\ edge_pc' = "idle"
    /\ edge_outcome' = "forward_failed"
    /\ UNCHANGED << cloud_vars, t_in, t_out, snapshot_vars, edge_log, redis,
                    store_failed, published >>

NextEdge == EdgeReceive \/ EdgeStore \/ EdgeForwardPublished \/ EdgeForwardRaises

SpecEdge == Init /\ [][NextEdge]_vars

(***************************************************************************)
(* The detector on its own: the four methods, detect_anomalies and         *)
(* should_forward_to_cloud applied to arguments drawn from bounded sets    *)
(* (the window of the module's own test, anomaly_detector.py:312, among    *)
(* them).                                                                  *)
(***************************************************************************)
MaxTestLen == 4

ScenarioWindow == << Num(50), Num(51), Num(49), Num(52), Num(50),
                     Num(48), Num(51), Num(49), Num(50), Num(51) >>
ConstantWindow == [i \in 1..10 |-> Num(50)]

TestBase == {Num(48), Num(52)}
TestWindows ==
    {ScenarioWindow, ConstantWindow} \cup UNION {[1..n -> TestBase] : n \in 0..MaxTestLen}
TestValues ==
    {Num(-5), Num(5), Num(50), Num(52), Num(54), Num(64), Num(65), Num(120), Num(200)}
TestPrevious == {None, Num(0), Num(-10), Num(50)}
TestBounds == {[low |-> None, high |-> None], [low |-> Num(10), high |-> None],
               [low |-> None, high |-> Num(150)], [low |-> Num(10), high |-> Num(150)]}
TestSensitivities == {"low", "medium", "high", "extreme"}

TestInputs ==
    [value : TestValues, window : TestWindows, previous : TestPrevious,
     bounds : TestBounds, sensitivity : TestSensitivities]

NoVerdict == [raised |-> FALSE, is_anomaly |-> FALSE, status |-> "none"]
NoReport == [raised |-> FALSE, parameter |-> "", current_value |-> None,
             anomalies_detected |-> << >>, severity |-> "normal"]
TestReady == [stage |-> "ready", zscore |-> FALSE, iqr |-> FALSE, change_rate |-> FALSE,
              threshold |-> NoVerdict, report |-> NoReport, forward |-> FALSE]

InitDetector ==
    /\ baselines = EmptyMap
    /\ previous_values = EmptyMap
    /\ pc = "idle"
    /\ msg = NoMessage
    /\ device_id = None
    /\ sensor_data = << >>
    /\ idx = 1
    /\ anomaly_analysis = << >>
    /\ anomalies_found = << >>
    /\ should_forward = FALSE
    /\ posts = 0
    /\ delivery = "none"
    /\ outcome = "none"
    /\ evals = << >>
    /\ recorded = EmptyMap
    /\ handled = 0
    /\ t_in \in TestInputs
    /\ t_out = TestReady
    /\ inbox = << >>
    /\ arrival_log = << >>
    /\ heap = << >>
    /\ stored = EmptyMap
    /\ snapshots = << >>
    /\ edge_pc = "idle"
    /\ edge_log = << >>
    /\ edge_outcome = "none"
    /\ redis = {}
    /\ store_failed = {}
    /\ published = << >>

\* Each method on its own (the threshold method only with both bounds, line 252).
RunMethods ==
    /\ t_out.stage = "ready"
    /\ t_out' = [t_out EXCEPT
          !.stage = "methods",
          !.zscore = zscore_anomaly(t_in.value, t_in.window),
          !.iqr = iqr_anomaly(t_in.value, t_in.window),
          !.change_rate = change_rate_anomaly(t_in.value, t_in.previous),
          !.threshold = IF t_in.bounds.low # None /\ t_in.bounds.high # None
                        THEN threshold_anomaly(t_in.value, t_in.bounds.low, t_in.bounds.high)
                        ELSE NoVerdict]
    /\ UNCHANGED << ingest_vars, t_in >>

RunDetect ==
    /\ t_out.stage = "methods"
    /\ t_out' = [t_out EXCEPT
          !.stage = "detected",
          !.report = detect_anomalies(t_in.value, "N", t_in.window, t_in.previous,
                                      t_in.bounds.low, t_in.bounds.high)]
    /\ UNCHANGED << ingest_vars, t_in >>

RunForward ==
    /\ t_out.stage = "detected"
    /\ ~t_out.report.raised
    /\ t_out' = [t_out EXCEPT
          !.stage = "forwarded",
          !.forward = should_forward_to_cloud(t_out.report, t_in.sensitivity)]
    /\ UNCHANGED << ingest_vars, t_in >>

NextDetector == RunMethods \/ RunDetect \/ RunForward

SpecDetector == InitDetector /\ [][NextDetector]_vars

(***************************************************************************)
(*                              PROPERTIES                                 *)
(***************************************************************************)
Front(h) == SubSeq(h, 1, Len(h) - 1)
LastOrNone(h) == IF h = << >> THEN None ELSE h[Len(h)]
History(device, parameter) == dict_get(recorded, << device, parameter >>, << >>)
Methods(report) ==
    [i \in 1..Len(report.anomalies_detected) |-> report.anomalies_detected[i].method]

(***************************************************************************)
(* C1.  The baseline is evaluated before it is updated.  For every         *)
(* detect_anomalies call of the message being handled, the window and the  *)
(* previous value passed to it are what the readings recorded EARLIER for  *)
(* that key left behind (the last 20 of them, and the newest of them or    *)
(* None), never the reading under evaluation; the reading is appended to   *)
(* the key's history only once its report exists, and not at all when the  *)
(* evaluation raised.                                                      *)
(***************************************************************************)
C1_ReadEvaluateWrite ==
    \A i \in 1..Len(evals) :
        LET e == evals[i]
            h == History(device_id, e.parameter)
            earlier == IF e.result.raised THEN h ELSE Front(h)
        IN  /\ ~e.result.raised => h # << >> /\ h[Len(h)] = e.current_value
            /\ e.baseline_values = LastN(earlier, window_size)
            /\ e.previous_value = LastOrNone(earlier)

\* A second reading of a key has been evaluated against the first one.
C1_Witness ==
    \E i \in 1..Len(evals) :
        /\ ~evals[i].result.raised
        /\ Len(evals[i].baseline_values) = 1
        /\ evals[i].previous_value # None
        /\ evals[i].baseline_values[1] # evals[i].current_value

(***************************************************************************)
(* C2.  After n record operations on a key its window holds at most        *)
(* window_size (20) values and is exactly the last min(n, window_size)     *)
(* recorded values, in arrival order; a key that was only read has an      *)
(* empty window.                                                           *)
(***************************************************************************)
C2_WindowIsLastW ==
    \A d \in DOMAIN baselines : \A p \in DOMAIN baselines[d] :
        LET w == baselines[d][p]
            h == History(d, p)
        IN  /\ Len(w) <= window_size
            /\ Len(w) = Min(Len(h), window_size)
            /\ \A j \in 1..Len(w) : w[j] = h[Len(h) - Len(w) + j]

\* W + 2 distinct values were recorded on one key.
C2_Witness ==
    \E d \in DOMAIN baselines : \E p \in DOMAIN baselines[d] :
        /\ Len(History(d, p)) = window_size + 2
        /\ Len(baselines[d][p]) = window_size
        /\ baselines[d][p][1] # History(d, p)[1]

(***************************************************************************)
(* C3.  The severity of a report is a function of its number of findings:  *)
(* 0 normal, 1 medium, 2 high, 3 or 4 critical (and there are never more   *)
(* than 4); so no smaller number of findings gives a higher severity.      *)
(***************************************************************************)
SeverityTable(n) ==
    CASE n = 0 -> "normal" [] n = 1 -> "medium" [] n = 2 -> "high" [] n \in {3, 4} -> "critical"
SeverityRank(sev) ==
    CASE sev = "normal" -> 0 [] sev = "medium" -> 1 [] sev = "high" -> 2 [] sev = "critical" -> 3

C3_SeverityByCount ==
    t_out.stage \in {"detected", "forwarded"} =>
        LET n == Len(t_out.report.anomalies_detected)
        IN  /\ n \in 0..4
            /\ t_out.report.severity = SeverityTable(n)
            /\ \A m \in 0..n : SeverityRank(SeverityTable(m)) <= SeverityRank(t_out.report.severity)

\* A report with all four findings.
C3_Witness ==
    /\ t_out.stage = "detected"
    /\ Len(t_out.report.anomalies_detected) = 4
    /\ t_out.report.severity = "critical"

(***************************************************************************)
(* C4.  When on_message reaches its decision, the alert is sent when and   *)
(* only when some report satisfies should_forward_to_cloud (sensitivity    *)
(* medium) or some report has at least one finding; the local              *)
(* should_forward is the first disjunct.                                   *)
(***************************************************************************)
PolicySaysForward ==
    \E i \in 1..Len(anomaly_analysis) :
        should_forward_to_cloud(anomaly_analysis[i], "medium")
SomeFinding ==
    \E i \in 1..Len(anomaly_analysis) : Len(anomaly_analysis[i].anomalies_detected) >= 1

C4_ForwardIsDisjunction ==
    /\ pc = "post" => (PolicySaysForward \/ SomeFinding) /\ should_forward = PolicySaysForward
    /\ pc = "idle" /\ outcome = "processed" =>
          /\ should_forward = PolicySaysForward
          /\ posts = (IF PolicySaysForward \/ SomeFinding THEN 1 ELSE 0)

\* An alert was sent on the second disjunct alone.
C4_Witness ==
    /\ pc = "idle" /\ outcome = "processed"
    /\ posts = 1
    /\ ~PolicySaysForward
    /\ SomeFinding

(***************************************************************************)
(* C5.  should_forward_to_cloud(report, sensitivity) is true exactly when  *)
(* the severity is in the set of the sensitivity: low {critical}, medium   *)
(* {critical, high}, high {critical, high, medium}; any other sensitivity  *)
(* behaves as medium.                                                      *)
(***************************************************************************)
C5_ForwardingTable ==
    t_out.stage = "forwarded" =>
        LET sev == t_out.report.severity
            sens == t_in.sensitivity
        IN  t_out.forward =
              CASE sens = "low" -> sev = "critical"
                [] sens = "high" -> sev \in {"critical", "high", "medium"}
                [] OTHER -> sev \in {"critical", "high"}

\* An unrecognized sensitivity forwards a high-severity report, as medium does.
C5_Witness ==
    /\ t_out.stage = "forwarded"
    /\ t_in.sensitivity = "extreme"
    /\ t_out.report.severity = "high"
    /\ t_out.forward

(***************************************************************************)
(* C6.  The outlier scenario of the detector's own test: window            *)
(* [50,51,49,52,50,48,51,49,50,51], previous 50, bounds (10, 150), value   *)
(* 120.                                                                    *)
(***************************************************************************)
Scenario(value) ==
    /\ t_out.stage \in {"detected", "forwarded"}
    /\ t_in.window = ScenarioWindow
    /\ t_in.previous = Num(50)
    /\ t_in.bounds = [low |-> Num(10), high |-> Num(150)]
    /\ t_in.value = Num(value)

\* C6 as stated: findings zscore and change_rate only, severity "high".
C6_Original ==
    Scenario(120) =>
        /\ Methods(t_out.report) = << "zscore", "change_rate" >>
        /\ t_out.report.severity = "high"

\* C6 amended: the IQR method flags 120 as well (it lies outside [46, 54]), so
\* the findings are zscore, iqr and change_rate, with no threshold finding, and
\* the severity is "critical".
C6_Amended ==
    Scenario(120) =>
        /\ Methods(t_out.report) = << "zscore", "iqr", "change_rate" >>
        /\ t_out.report.severity = "critical"

C6_Witness == Scenario(120) /\ t_out.stage = "detected"

(***************************************************************************)
(* C7.  The critical-threshold scenario: same window, previous and bounds, *)
(* value 5.                                                                *)
(***************************************************************************)
\* C7 as stated: a threshold finding (below_critical) plus change_rate, severity "high".
C7_Original ==
    Scenario(5) =>
        /\ Methods(t_out.report) = << "change_rate", "threshold" >>
        /\ t_out.report.anomalies_detected[2].status = "below_critical"
        /\ t_out.report.severity = "high"

\* C7 amended: the Z-score and IQR methods flag 5 too, so all four methods
\* report (the threshold finding with status below_critical) and the severity
\* is "critical".
C7_Amended ==
    Scenario(5) =>
        /\ Methods(t_out.report) = << "zscore", "iqr", "change_rate", "threshold" >>
        /\ t_out.report.anomalies_detected[4].status = "below_critical"
        /\ t_out.report.severity = "critical"

C7_Witness == Scenario(5) /\ t_out.stage = "detected"

(***************************************************************************)
(* C8.  A message that cannot be decoded, or that has no device_id, is     *)
(* rejected before detection: while it is handled no step calls            *)
(* detect_anomalies, creates or changes a window or a previous value, or   *)
(* sends anything.                                                         *)
(***************************************************************************)
Malformed(m) == m.kind # "object" \/ alert_get(m.items, "device_id") = None

C8_MalformedRejected ==
    [][Malformed(msg') =>
          /\ baselines' = baselines
          /\ previous_values' = previous_values
          /\ evals' = << >>
          /\ posts' = 0]_vars

(***************************************************************************)
(* C9.  Processing a message is all-or-nothing for the baseline: when      *)
(* on_message has returned, either every sensor parameter of the message   *)
(* was recorded or none was.  (Stated for messages that carry a device_id; *)
(* those without one are the subject of C8.)                               *)
(***************************************************************************)
RecordedOfMessage == {i \in 1..Len(evals) : ~evals[i].result.raised}

C9_AllOrNothing ==
    pc = "idle" /\ device_id # None =>
        Cardinality(RecordedOfMessage) \in {0, Len(sensor_data)}

(***************************************************************************)
(* C10.  The change-rate method.                                           *)
(***************************************************************************)
\* num/den >= tn/td for den # 0, on integers.
QuotientAtLeast(num, den, tn, td) ==
    IF den > 0 THEN td * num >= tn * den ELSE td * num <= tn * den

\* C10 as stated: with previous present and nonzero, of either sign, a finding
\* exactly when |value - previous| / previous >= 0.3; none otherwise.
C10_Original ==
    t_out.stage # "ready" =>
        (t_out.change_rate <=>
            /\ t_in.previous # None
            /\ t_in.previous.n # 0
            /\ QuotientAtLeast(Abs(t_in.value.n - t_in.previous.n), t_in.previous.n,
                               change_rate_threshold_num, change_rate_threshold_den))

\* C10 amended: the rate is |value - previous| / |previous| (the absolute value
\* of the quotient), and a finding is produced exactly when previous is present
\* and nonzero and that rate is >= 0.3.
C10_Amended ==
    t_out.stage # "ready" =>
        (t_out.change_rate <=>
            /\ t_in.previous # None
            /\ t_in.previous.n # 0
            /\ QuotientAtLeast(Abs(t_in.value.n - t_in.previous.n), Abs(t_in.previous.n),
                               change_rate_threshold_num, change_rate_threshold_den))

\* The boundary: 65 after 50 is a change of exactly 0.3, and is flagged.
C10_Witness ==
    /\ t_out.stage = "methods"
    /\ t_in.previous = Num(50)
    /\ t_in.value = Num(65)
    /\ t_out.change_rate


(***************************************************************************)
(* C11.  The calls of on_message are serialised in arrival order.  A call  *)
(* starts only when no other call is running, so no call ever begins while *)
(* another is between its baseline read and its baseline write (for the    *)
(* same key or any other); the packet handled is the oldest one waiting,   *)
(* and the values of a key enter its window in the order their packets     *)
(* arrived.                                                                *)
(***************************************************************************)
RECURSIVE KeyValues(_, _, _)
\* The numeric readings of key (d, p) in a sequence of packets, in order.
KeyValues(log, d, p) ==
    IF log = << >> THEN << >>
    ELSE LET m == Head(log)
             own == IF m.kind = "object" /\ alert_get(m.items, "device_id") = Str(d)
                    THEN SelectSeq(select_sensor_data(m.items),
                                   LAMBDA it : it.key = p /\ IsNum(it.value))
                    ELSE << >>
         IN  [i \in 1..Len(own) |-> own[i].value] \o KeyValues(Tail(log), d, p)

IsPrefix(a, b) == Len(a) <= Len(b) /\ a = SubSeq(b, 1, Len(a))

C11_ArrivalOrder ==
    /\ handled <= Len(arrival_log)
    /\ inbox = SubSeq(arrival_log, handled + 1, Len(arrival_log))
    /\ handled > 0 => msg = arrival_log[handled]
    /\ \A d \in DeviceIds :
          LET done == KeyValues(SubSeq(arrival_log, 1, handled), d, "humidity")
              h == History(Str(d), "humidity")
          IN  /\ IsPrefix(h, done)
              /\ Len(done) <= Len(h) + 1
              /\ pc = "idle" => h = done

C11_Serialised ==
    /\ []C11_ArrivalOrder
    /\ [][handled' # handled => (pc = "idle" /\ outcome # "running")]_vars

\* A packet for the key being evaluated waits while the call is between the
\* baseline read and the baseline write of that key.
C11_Witness ==
    /\ pc = "loop"
    /\ inbox # << >>
    /\ Head(inbox).kind = "object"
    /\ alert_get(Head(inbox).items, "device_id") = device_id
    /\ select_sensor_data(Head(inbox).items)[1].key = sensor_data[idx].key
    /\ IsNum(sensor_data[idx].value)

(***************************************************************************)
(* C12.  Frame of a message.  Every step of handling a message for device  *)
(* d, whether the call ends normally or in an except clause, leaves the    *)
(* window and the previous value of every other key as they were: the keys *)
(* of another device, and the keys of d for a parameter the message does   *)
(* not carry.  "As they were" includes not creating them.                  *)
(***************************************************************************)
DeviceKeys == {Str(d) : d \in DeviceIds} \cup {None}
ParameterKeys == Parameters \cup {"edge_node", "device_id", "timestamp"}

WindowOf(b, d, p) ==
    IF d \in DOMAIN b /\ p \in DOMAIN b[d] THEN [present |-> TRUE, list |-> b[d][p]]
    ELSE [present |-> FALSE, list |-> << >>]

PreviousOf(pv, d, p) ==
    IF d \in DOMAIN pv /\ p \in DOMAIN pv[d] THEN [present |-> TRUE, value |-> pv[d][p]]
    ELSE [present |-> FALSE, value |-> None]

CarriedBy(items) == {items[i].key : i \in 1..Len(items)}

C12_Frame ==
    [][\A d \in DeviceKeys : \A p \in ParameterKeys :
          (d # device_id' \/ p \notin CarriedBy(sensor_data')) =>
              /\ WindowOf(baselines', d, p) = WindowOf(baselines, d, p)
              /\ PreviousOf(previous_values', d, p) = PreviousOf(previous_values, d, p)
              /\ (d # device_id' => (d \in DOMAIN baselines' <=> d \in DOMAIN baselines))
      ]_vars

\* A message of one device has been recorded while another device and another
\* parameter of the same device hold different data.
C12_Witness ==
    /\ pc = "idle" /\ outcome = "processed" /\ handled = MaxMessages
    /\ device_id = Str("device_india")
    /\ CarriedBy(sensor_data) = {"humidity"}
    /\ WindowOf(baselines, Str("device_india"), "humidity").list # << >>
    /\ WindowOf(baselines, Str("device_germany"), "humidity").list # << >>
    /\ WindowOf(baselines, Str("device_germany"), "humidity").list
           # WindowOf(baselines, Str("device_india"), "humidity").list

(***************************************************************************)
(* C13.  A failed delivery does not undo the recording.  When the handler  *)
(* is about to send the alert, and after the request has failed, every     *)
(* sensor parameter of the message is the newest element of its window and *)
(* is the stored previous value; the failing request changes neither.      *)
(***************************************************************************)
Committed ==
    \A i \in 1..Len(sensor_data) :
        LET w == get_baseline(baselines, device_id, sensor_data[i].key)
        IN  /\ w # << >>
            /\ w[Len(w)] = sensor_data[i].value
            /\ get_previous_value(previous_values, device_id, sensor_data[i].key)
                  = sensor_data[i].value

C13_CommittedAcrossFailure ==
    /\ [](pc = "post" \/ delivery = "failed" => Committed)
    /\ [][delivery' = "failed" /\ delivery # "failed" =>
             baselines' = baselines /\ previous_values' = previous_values]_vars

C13_Witness ==
    /\ pc = "idle" /\ delivery = "failed"
    /\ Len(sensor_data) = 2
    /\ Committed

(***************************************************************************)
(* C14.  At most one delivery request per message.  No request has been    *)
(* made while the handler is about to send; once a request has returned or *)
(* failed the call is over (no second attempt); a call that ran to the end *)
(* made one request when "should_forward or anomalies_found" (line 144)    *)
(* was true and none when it was false; a call that ended in an except     *)
(* clause made none.                                                       *)
(***************************************************************************)
C14_AtMostOneRequest ==
    /\ posts \in {0, 1}
    /\ pc = "post" => posts = 0
    /\ delivery # "none" => posts = 1 /\ pc = "idle" /\ outcome = "processed"
    /\ pc = "idle" /\ outcome = "processed" =>
          (posts = 1 <=> (should_forward \/ anomalies_found # << >>))
    /\ outcome \in {"rejected", "aborted"} => posts = 0

\* The single request failed and the handler is waiting for the next message.
C14_Witness == pc = "idle" /\ delivery = "failed" /\ posts = 1

\* No finding, no request.
C14_WitnessNone == pc = "idle" /\ outcome = "processed" /\ posts = 0 /\ sensor_data # << >>

(***************************************************************************)
(* C15.  The findings of a report are the methods whose own condition      *)
(* holds, each run on its own arguments whatever the others found, listed  *)
(* in the fixed order zscore, iqr, change_rate, threshold.                 *)
(***************************************************************************)
Reported == t_out.stage \in {"detected", "forwarded"}

OwnVerdicts ==
    (IF t_out.zscore THEN << "zscore" >> ELSE << >>)
    \o (IF t_out.iqr THEN << "iqr" >> ELSE << >>)
    \o (IF t_out.change_rate THEN << "change_rate" >> ELSE << >>)
    \o (IF t_out.threshold.is_anomaly THEN << "threshold" >> ELSE << >>)

C15_FindingsInOrder ==
    Reported => ~t_out.report.raised /\ Methods(t_out.report) = OwnVerdicts

\* Findings of the second and the fourth method with none of the first and third.
C15_Witness ==
    /\ t_out.stage = "detected"
    /\ Methods(t_out.report) = << "iqr", "threshold" >>
    /\ ~t_out.zscore /\ ~t_out.change_rate

(***************************************************************************)
(* C16.  A window of fewer than two samples gives no Z-score finding and a *)
(* window of fewer than four samples gives no IQR finding, whatever the    *)
(* value: neither the method nor the report has it.                        *)
(***************************************************************************)
C16_MinimumSamples ==
    /\ t_out.stage \in {"methods", "detected", "forwarded"} =>
          /\ Len(t_in.window) < 2 => ~t_out.zscore
          /\ Len(t_in.window) < 4 => ~t_out.iqr
    /\ Reported =>
          /\ Len(t_in.window) < 2 => "zscore" \notin Range(Methods(t_out.report))
          /\ Len(t_in.window) < 4 => "iqr" \notin Range(Methods(t_out.report))

\* Three samples and a far value: the Z-score finds, the IQR abstains.
C16_Witness ==
    /\ t_out.stage = "detected"
    /\ Len(t_in.window) = 3
    /\ t_in.value = Num(120)
    /\ Methods(t_out.report) = << "zscore" >>

(***************************************************************************)
(* C17.  A degenerate input silences only its own method.  For a numeric   *)
(* value and a numeric window a report is always returned; a window with   *)
(* no spread or fewer than two samples gives no zscore finding, fewer than *)
(* four samples no iqr finding, an absent or zero previous value no        *)
(* change_rate finding, a missing low or high bound no threshold finding;  *)
(* every method is in the report exactly when its own condition holds.     *)
(***************************************************************************)
NoSpread(w) == \A i, j \in 1..Len(w) : w[i] = w[j]

C17_DegenerateAbstains ==
    Reported =>
        LET found == Range(Methods(t_out.report))
        IN  /\ ~t_out.report.raised
            /\ (Len(t_in.window) < 2 \/ NoSpread(t_in.window)) => "zscore" \notin found
            /\ Len(t_in.window) < 4 => "iqr" \notin found
            /\ t_in.previous \in {None, Num(0)} => "change_rate" \notin found
            /\ (t_in.bounds.low = None \/ t_in.bounds.high = None) => "threshold" \notin found
            /\ "zscore" \in found <=> t_out.zscore
            /\ "iqr" \in found <=> t_out.iqr
            /\ "change_rate" \in found <=> t_out.change_rate
            /\ "threshold" \in found <=> t_out.threshold.is_anomaly

\* No spread, a zero previous value and one bound missing: three methods
\* abstain and the IQR method still reports.
C17_Witness ==
    /\ t_out.stage = "detected"
    /\ t_in.window = ConstantWindow
    /\ t_in.previous = Num(0)
    /\ t_in.bounds = [low |-> Num(10), high |-> None]
    /\ t_in.value = Num(120)
    /\ Methods(t_out.report) = << "iqr" >>

(***************************************************************************)
(* C18.  A window of identical values c and the value c, with the previous *)
(* value absent or c (c lies inside the configured bounds): the Z-score    *)
(* abstains, the IQR method does not flag, a report is returned (no        *)
(* division fault) and its severity is "normal".                           *)
(***************************************************************************)
AllEqualTo(w, v) == \A i \in 1..Len(w) : w[i] = v

Degenerate ==
    /\ t_in.window # << >>
    /\ AllEqualTo(t_in.window, t_in.value)
    /\ t_in.previous \in {None, t_in.value}

C18_ConstantWindowIsNormal ==
    /\ t_out.stage \in {"methods", "detected", "forwarded"} /\ Degenerate =>
          ~t_out.zscore /\ ~t_out.iqr
    /\ Reported /\ Degenerate =>
          /\ ~t_out.report.raised
          /\ t_out.report.anomalies_detected = << >>
          /\ t_out.report.severity = "normal"

\* Ten samples of 50, the value 50, the previous value 50, bounds 10 .. 150.
C18_Witness ==
    /\ t_out.stage = "detected"
    /\ t_in.window = ConstantWindow
    /\ t_in.value = Num(50)
    /\ t_in.previous = Num(50)
    /\ t_in.bounds = [low |-> Num(10), high |-> Num(150)]
    /\ t_out.report.severity = "normal"

(***************************************************************************)
(* C19.  The parameters of a message are its payload keys other than the   *)
(* fields the edge node adds (edge_node, device_id, timestamp).  Only such *)
(* keys are evaluated, in payload order; when the call has run to its end  *)
(* anomaly_analysis has one report for each of them, in payload order, and *)
(* none for a metadata field; no metadata field ever has a window or a     *)
(* previous value.                                                         *)
(***************************************************************************)
EdgeFields == {"edge_node", "device_id", "timestamp"}

PayloadParameters ==
    LET own == SelectSeq(msg.items, LAMBDA it : it.key \notin EdgeFields)
    IN  [i \in 1..Len(own) |-> own[i].key]

C19_ParametersArePayloadKeys ==
    /\ IsPrefix([i \in 1..Len(evals) |-> evals[i].parameter], PayloadParameters)
    /\ IsPrefix([i \in 1..Len(anomaly_analysis) |-> anomaly_analysis[i].parameter],
                PayloadParameters)
    /\ pc = "idle" /\ outcome = "processed" =>
          [i \in 1..Len(anomaly_analysis) |-> anomaly_analysis[i].parameter]
              = PayloadParameters
    /\ \A d \in DOMAIN baselines : DOMAIN baselines[d] \cap EdgeFields = {}
    /\ \A d \in DOMAIN previous_values : DOMAIN previous_values[d] \cap EdgeFields = {}
    /\ \A k \in DOMAIN recorded : k[2] \notin EdgeFields

\* A message with the three edge fields and two parameters has been processed.
C19_Witness ==
    /\ pc = "idle" /\ outcome = "processed"
    /\ EdgeFields \subseteq CarriedBy(msg.items)
    /\ Len(anomaly_analysis) = 2
    /\ DOMAIN baselines[device_id] = {"temperature", "humidity"}

(***************************************************************************)
(* C20.  A message that has been processed was forwarded exactly when some *)
(* report has a finding.  The policy never decides: a report it accepts    *)
(* has findings; a message whose only report has severity "medium", which  *)
(* the policy at sensitivity medium rejects, is forwarded; a message whose *)
(* reports are all normal is not.                                          *)
(***************************************************************************)
Processed == pc = "idle" /\ outcome = "processed"

C20_ForwardIffFinding ==
    /\ Processed => (posts = 1 <=> SomeFinding)
    /\ PolicySaysForward => SomeFinding
    /\ Processed /\ (\E i \in 1..Len(anomaly_analysis) :
                        anomaly_analysis[i].severity = "medium") => posts = 1
    /\ Processed /\ (\A i \in 1..Len(anomaly_analysis) :
                        anomaly_analysis[i].severity = "normal") => posts = 0

\* One report, severity medium, rejected by the policy, forwarded.
C20_Witness ==
    /\ Processed
    /\ Len(anomaly_analysis) = 1
    /\ anomaly_analysis[1].severity = "medium"
    /\ ~should_forward_to_cloud(anomaly_analysis[1], "medium")
    /\ posts = 1

(***************************************************************************)
(* C21.  The Z-score method.  For a window of n >= 2 numbers that are not  *)
(* all equal, with mean = S / n and sample standard deviation              *)
(* sqrt(sum of (x - mean)^2 / (n - 1)), the method finds exactly when      *)
(* |value - mean| / stddev >= zscore_threshold, the boundary included.     *)
(* With the deviations scaled by n, D(x) = n*x - S:                        *)
(*   |value - mean| / stddev >= num/den                                    *)
(*      <=>  den^2 * (n - 1) * D(value)^2 >= num^2 * (sum of D(x)^2).      *)
(***************************************************************************)
RECURSIVE SumSquaredDeviations(_, _, _)
\* Sum over x in w of (n*x - S)^2.
SumSquaredDeviations(w, n, S) ==
    IF w = << >> THEN 0
    ELSE (n * w[1].n - S) * (n * w[1].n - S) + SumSquaredDeviations(Tail(w), n, S)

RECURSIVE Total(_)
Total(w) == IF w = << >> THEN 0 ELSE w[1].n + Total(Tail(w))

ZScoreAtLeastThreshold(v, w) ==
    LET n == Len(w)
        S == Total(w)
        D == n * v.n - S
    IN  zscore_threshold_den * zscore_threshold_den * (n - 1) * D * D
          >= zscore_threshold_num * zscore_threshold_num * SumSquaredDeviations(w, n, S)

ZScoreOnBoundary(v, w) ==
    LET n == Len(w)
        S == Total(w)
        D == n * v.n - S
    IN  zscore_threshold_den * zscore_threshold_den * (n - 1) * D * D
          = zscore_threshold_num * zscore_threshold_num * SumSquaredDeviations(w, n, S)

MethodsRun == t_out.stage \in {"methods", "detected", "forwarded"}

C21_ZScoreRule ==
    MethodsRun /\ Len(t_in.window) >= 2 /\ ~NoSpread(t_in.window) =>
        /\ t_out.zscore <=> ZScoreAtLeastThreshold(t_in.value, t_in.window)
        /\ Reported =>
              ("zscore" \in Range(Methods(t_out.report))
                  <=> ZScoreAtLeastThreshold(t_in.value, t_in.window))

\* A value exactly zscore_threshold standard deviations from the mean is found.
C21_Witness ==
    /\ t_out.stage = "methods"
    /\ Len(t_in.window) >= 2 /\ ~NoSpread(t_in.window)
    /\ ZScoreOnBoundary(t_in.value, t_in.window)
    /\ t_out.zscore

(***************************************************************************)
(* C22.  The IQR method.  For a window of n >= 4 numbers, q1 and q3 are    *)
(* the elements at the 0-based positions n \div 4 and (3n) \div 4 of the   *)
(* ascending window, and the method finds exactly when                     *)
(*   value < q1 - m*(q3 - q1)   or   value > q3 + m*(q3 - q1),             *)
(* m = iqr_multiplier; a value on a bound is not found.                    *)
(***************************************************************************)
\* The element at 0-based position k of w in ascending order.
Ranked(w, k) ==
    CHOOSE x \in {w[i].n : i \in 1..Len(w)} :
        /\ Cardinality({i \in 1..Len(w) : w[i].n < x}) <= k
        /\ Cardinality({i \in 1..Len(w) : w[i].n <= x}) > k

OutsideFences(v, w) ==
    LET n == Len(w)
        q1 == Ranked(w, n \div 4)
        q3 == Ranked(w, (3 * n) \div 4)
    IN  \/ iqr_multiplier_den * v.n < iqr_multiplier_den * q1 - iqr_multiplier_num * (q3 - q1)
        \/ iqr_multiplier_den * v.n > iqr_multiplier_den * q3 + iqr_multiplier_num * (q3 - q1)

OnFence(v, w) ==
    LET n == Len(w)
        q1 == Ranked(w, n \div 4)
        q3 == Ranked(w, (3 * n) \div 4)
    IN  \/ iqr_multiplier_den * v.n = iqr_multiplier_den * q1 - iqr_multiplier_num * (q3 - q1)
        \/ iqr_multiplier_den * v.n = iqr_multiplier_den * q3 + iqr_multiplier_num * (q3 - q1)

C22_IqrRule ==
    MethodsRun /\ Len(t_in.window) >= 4 =>
        /\ t_out.iqr <=> OutsideFences(t_in.value, t_in.window)
        /\ OnFence(t_in.value, t_in.window) => ~t_out.iqr
        /\ Reported =>
              ("iqr" \in Range(Methods(t_out.report))
                  <=> OutsideFences(t_in.value, t_in.window))

\* A window that is not constant and a value on its fence: not found.
C22_Witness ==
    /\ t_out.stage = "methods"
    /\ Len(t_in.window) >= 4 /\ ~NoSpread(t_in.window)
    /\ OnFence(t_in.value, t_in.window)
    /\ ~t_out.iqr

(***************************************************************************)
(* C23.  The threshold method.  With both bounds configured the report has *)
(* the finding threshold/below_critical exactly when value < low, the      *)
(* finding threshold/above_critical exactly when value > high and no       *)
(* threshold finding when low <= value <= high, whatever the window and    *)
(* the previous value; with a bound missing it has no threshold finding.   *)
(***************************************************************************)
ThresholdFindings(report) ==
    SelectSeq(report.anomalies_detected, LAMBDA f : f.method = "threshold")

C23_ThresholdRule ==
    Reported /\ ~t_out.report.raised =>
        LET th == ThresholdFindings(t_out.report)
            low == t_in.bounds.low
            high == t_in.bounds.high
        IN  IF low = None \/ high = None THEN th = << >>
            ELSE /\ t_in.value.n < low.n <=>
                       th = << [method |-> "threshold", status |-> "below_critical"] >>
                 /\ t_in.value.n > high.n <=>
                       th = << [method |-> "threshold", status |-> "above_critical"] >>
                 /\ (low.n <= t_in.value.n /\ t_in.value.n <= high.n) <=> th = << >>

\* An empty window, no previous value, a value above the high bound.
C23_Witness ==
    /\ t_out.stage = "detected"
    /\ t_in.window = << >> /\ t_in.previous = None
    /\ t_in.bounds.low # None /\ t_in.bounds.high # None
    /\ t_in.value.n > t_in.bounds.high.n
    /\ t_out.report.anomalies_detected
          = << [method |-> "threshold", status |-> "above_critical"] >>

RecordedBefore(i) ==
    Len(History(device_id, evals[i].parameter)) - (IF evals[i].result.raised THEN 0 ELSE 1)

C26_FirstReading ==
    \A i \in 1..Len(evals) :
        LET r == evals[i].result
        IN  ~r.raised =>
              /\ RecordedBefore(i) = 0 =>
                    /\ Len(r.anomalies_detected) <= 1
                    /\ Range(Methods(r)) \subseteq {"threshold"}
                    /\ r.severity \in {"normal", "medium"}
              /\ r.severity = "critical" => RecordedBefore(i) >= 2

\* A first reading above the high bound: one threshold finding, medium.
C26_Witness ==
    /\ pc = "idle" /\ outcome = "processed"
    /\ Len(evals) = 1
    /\ RecordedBefore(1) = 0
    /\ Methods(evals[1].result) = << "threshold" >>
    /\ evals[1].result.severity = "medium"

\* The third reading of a key is critical.
C26_WitnessCritical ==
    /\ Len(evals) = 1
    /\ ~evals[1].result.raised
    /\ RecordedBefore(1) = 2
    /\ evals[1].result.severity = "critical"

(***************************************************************************)
(* C25.  The list _get_baseline returns is a snapshot.  It holds the       *)
(* window of its key as it was at the call (empty for a key with nothing   *)
(* recorded) and keeps holding it whatever is recorded afterwards; it is   *)
(* an object of its own - not the stored list of any key and not a list    *)
(* returned by another call - so nothing the caller does to it can reach   *)
(* the stored window.                                                      *)
(***************************************************************************)
StoredObjects == {stored[k] : k \in DOMAIN stored}

C25_Snapshot ==
    /\ \A i \in 1..Len(snapshots) :
          /\ heap[snapshots[i].ref] = snapshots[i].expected
          /\ snapshots[i].ref \notin StoredObjects
          /\ \A j \in 1..Len(snapshots) : i # j => snapshots[i].ref # snapshots[j].ref
    /\ \A k \in DOMAIN stored :
          heap[stored[k]] = LastN(dict_get(recorded, k, << >>), window_size)

\* A list returned with one value in it; another value was recorded for its
\* key afterwards.
C25_Witness ==
    \E i \in 1..Len(snapshots) :
        /\ Len(snapshots[i].expected) = 1
        /\ Len(heap[stored[snapshots[i].key]]) = 2
        /\ heap[snapshots[i].ref] = snapshots[i].expected

(***************************************************************************)
(* C27.  The edge node forwards what it manages and has stored.  Every     *)
(* published payload is of a decoded reading whose device is managed and   *)
(* whose store completed, and the store came before the publish.  After a  *)
(* message that is undecodable, from an unmanaged device, or whose store   *)
(* failed, nothing was published for it and the callback has returned, so  *)
(* the node takes the next message.                                        *)
(***************************************************************************)
PublishedReadings == {published[i].reading : i \in 1..Len(published)}

Dropped == edge_outcome \in {"undecodable", "failed", "unmanaged", "store_failed"}

C27_PublishedWereStored ==
    /\ \A i \in 1..Len(published) :
          LET m == edge_log[published[i].reading]
          IN  /\ m.kind = "object"
              /\ m.device = Str("device_germany")
              /\ published[i].device_id = m.device
              /\ published[i].reading \in redis
              /\ published[i].reading \notin store_failed
    /\ Dropped => edge_pc = "idle" /\ Len(edge_log) \notin PublishedReadings
    /\ \A i \in 1..Len(edge_log) :
          (edge_log[i].kind # "object" \/ edge_log[i].device # Str("device_germany")
             \/ i \in store_failed) => i \notin PublishedReadings

====
